---- MODULE Spec2Model ----
(***************************************************************************)
(* Availability search and schedule ledger of the transport-booking        *)
(* backend (app/services/transport.py, app/schemas/transport.py,           *)
(* app/models/transport.py).                                               *)
(*                                                                         *)
(* The database tables are sets of rows; every request handler is one      *)
(* action; the last HTTP response is kept in `response`.  Prices and       *)
(* ratings are small integers (the code compares them only with <=, >=     *)
(* and orders them), instants are integers on an abstract clock `now`.     *)
(* add_route_to_transport_service and add_transport_schedule_service are   *)
(* modelled a second time statement by statement, one action per database  *)
(* statement, for the properties of requests that run at the same time     *)
(* (`calls`).                                                              *)
(***************************************************************************)
EXTENDS Integers, Sequences, FiniteSets, TLC

VARIABLES
    now,               \* datetime.now(timezone.utc) as seen by the validators
    transports,        \* table transports
    routes,            \* table routes
    transport_routes,  \* table transport_routes
    schedules,         \* table schedules
    seq,               \* the serial primary-key counters of the tables
    response,          \* the response to the last request
    calls              \* the requests in flight that run statement by statement

vars == <<now, transports, routes, transport_routes, schedules, seq, response, calls>>

db == <<transports, routes, transport_routes, schedules>>

(***************************************************************************)
(* Bounds of the model.                                                    *)
(***************************************************************************)
MaxTransports == 2

MaxTransportRoutes == 2

MaxSchedules == 2

MaxNow == 1

\* Requests in flight at once.
MaxCalls == 2

(***************************************************************************)
(* Reference data and column values.                                       *)
(***************************************************************************)
\* SQL NULL of a nullable integer column; serial ids start at 1.
NULL == 0

\* Rows of table cities (reference data, never written by these handlers).
Cities == {1, 2}

\* Rows of table carriers: one carrier per operator account.
Carriers == {[id |-> 1, user_id |-> 1], [id |-> 2, user_id |-> 2]}

\* Members of ScheduleReasonEnum.
ScheduleReasonEnum == {"TECHNICAL", "RESERVATION"}

NoResponse == [op |-> "none", req |-> [none |-> TRUE], status |-> 0, body |-> <<>>]

\* No request in the slot.
NoCall == [pc |-> "idle", req |-> [none |-> TRUE], route_id |-> NULL, created |-> FALSE,
           status |-> 0]

Reply(op, req, status, body) ==
    [op |-> op, req |-> req, status |-> status, body |-> body]

(***************************************************************************)
(* TransportFilter: the validator of the search request.                   *)
(***************************************************************************)
validate_times_and_prices(filters, at) ==
    (IF filters.start_time < at THEN {"start_time"} ELSE {})
        \cup (IF filters.end_time <= filters.start_time THEN {"end_time"} ELSE {})
        \cup (IF filters.max_price < filters.min_price THEN {"max_price"} ELSE {})

(***************************************************************************)
(* filter_transports_service: the query.                                   *)
(***************************************************************************)
\* SORT_FIELD_MAP.get(filters.sort_by, Transport.rating) applied to a row.
SORT_FIELD_MAP(sort_by, t, tr) ==
    IF sort_by = "price" THEN tr.min_price ELSE t.rating

\* order_func that always sorts ascending.
order_func_asc(sort_order, a, b) ==
    a <= b

\* order_func = desc if filters.sort_order == "desc" else asc
order_func(sort_order, a, b) ==
    IF sort_order = "desc" THEN a >= b ELSE a <= b

\* ScheduleOverlaps with closed intervals: a touching schedule counts as busy.
ScheduleOverlaps_closed(s, filters) ==
    ~(s.end_time < filters.start_time \/ s.start_time > filters.end_time)

\* The WHERE clause of the subquery: the schedule overlaps the window.
ScheduleOverlaps(s, filters) ==
    ~(s.end_time <= filters.start_time \/ s.start_time >= filters.end_time)

\* subq that also keeps the vehicles offered by the previous search as busy.
subq_cached(filters) ==
    {s.id_transport : s \in {x \in schedules : ScheduleOverlaps(x, filters)}}
        \cup (IF response.op = "search"
              THEN {response.body[i].id : i \in 1..Len(response.body)}
              ELSE {})

\* subq: the id_transport column of the overlapping schedules (NULLs included).
subq(filters) ==
    {s.id_transport : s \in {x \in schedules : ScheduleOverlaps(x, filters)}}

\* ~Transport.id.in_(select(subq.c.id_transport)): SQL's NOT IN is TRUE only
\* when the id is absent and the subquery yields no NULL (else FALSE / UNKNOWN).
NotBusy(t, filters) ==
    t.id \notin subq(filters) /\ NULL \notin subq(filters)

\* RouteMatches that takes a route in either direction.
RouteMatches_undirected(r, filters) ==
    \/ r.id_from = filters.id_from /\ r.id_to = filters.id_to
    \/ r.id_from = filters.id_to /\ r.id_to = filters.id_from

RouteMatches(r, filters) ==
    r.id_from = filters.id_from /\ r.id_to = filters.id_to

SeatMatches(t, filters) ==
    t.n_seat >= filters.n_seat

\* PriceMatches that accepts a band overlapping the requested bound.
PriceMatches_overlap(tr, filters) ==
    tr.min_price <= filters.max_price /\ tr.max_price >= filters.min_price

PriceMatches(tr, filters) ==
    tr.min_price >= filters.min_price /\ tr.max_price <= filters.max_price

\* AmenityMatches that tests the flags for truth (`if filters.wifi:`), so that
\* a filter value of False adds no condition.
AmenityMatches_truthy(t, filters) ==
    /\ (filters.luggage = {TRUE} => t.luggage)
    /\ (filters.wifi = {TRUE} => t.wifi)
    /\ (filters.tv = {TRUE} => t.tv)
    /\ (filters.air_conditioning = {TRUE} => t.air_conditioning)
    /\ (filters.toilet = {TRUE} => t.toilet)

\* The optional filters: a condition is added only for a flag that is not None.
AmenityMatches(t, filters) ==
    /\ (filters.luggage # {} => t.luggage \in filters.luggage)
    /\ (filters.wifi # {} => t.wifi \in filters.wifi)
    /\ (filters.tv # {} => t.tv \in filters.tv)
    /\ (filters.air_conditioning # {} => t.air_conditioning \in filters.air_conditioning)
    /\ (filters.toilet # {} => t.toilet \in filters.toilet)

\* select(Transport, TransportRoute).join(transport_routes).join(route).where(...)
\* followed by result.unique(): the set of (Transport, TransportRoute) pairs.
QueryRows(filters) ==
    {p \in transports \X transport_routes :
        /\ p[2].transport_id = p[1].id
        /\ \E r \in routes :
              /\ r.id = p[2].route_id
              /\ RouteMatches(r, filters)
        /\ SeatMatches(p[1], filters)
        /\ PriceMatches(p[2], filters)
        /\ NotBusy(p[1], filters)
        /\ AmenityMatches(p[1], filters)}

\* .order_by(order_func(sort_field)): every order of the rows the database may
\* return; rows with an equal sort value come in an order the query leaves open.
OrderBy(rows, filters) ==
    LET n == Cardinality(rows)
        key(p) == SORT_FIELD_MAP(filters.sort_by, p[1], p[2])
    IN  {s \in [1..n -> rows] :
            /\ \A i, j \in 1..n : i # j => s[i] # s[j]
            /\ \A i \in 1..n : i < n =>
                  order_func(filters.sort_order, key(s[i]), key(s[i + 1]))}

\* TransportFilterResponse that takes the band of any assignment of the
\* vehicle, as get_transport_by_id_service does.
TransportFilterResponse_any(t, tr) ==
    LET any == CHOOSE x \in transport_routes : x.transport_id = t.id
    IN  [id |-> t.id, carrier_id |-> t.carrier_id, n_seat |-> t.n_seat,
         luggage |-> t.luggage, wifi |-> t.wifi, tv |-> t.tv,
         air_conditioning |-> t.air_conditioning, toilet |-> t.toilet,
         rating |-> t.rating,
         min_price |-> any.min_price, max_price |-> any.max_price]

\* TransportFilterResponse built from one row (brand, model and photo carry
\* no behaviour and are left out).
TransportFilterResponse(t, tr) ==
    [id |-> t.id, carrier_id |-> t.carrier_id, n_seat |-> t.n_seat,
     luggage |-> t.luggage, wifi |-> t.wifi, tv |-> t.tv,
     air_conditioning |-> t.air_conditioning, toilet |-> t.toilet,
     rating |-> t.rating,
     min_price |-> tr.min_price, max_price |-> tr.max_price]

\* SearchOutcome without the 404: an empty list is returned as it is.
SearchOutcome_empty_list(filters, ordered) ==
    Reply("search", filters, 200,
          [i \in 1..Len(ordered) |->
              TransportFilterResponse(ordered[i][1], ordered[i][2])])

\* The outcome of the service for the ordered rows: 404 when there are none.
SearchOutcome(filters, ordered) ==
    IF Len(ordered) = 0
    THEN Reply("search", filters, 404, <<>>)
    ELSE Reply("search", filters, 200,
               [i \in 1..Len(ordered) |->
                   TransportFilterResponse(ordered[i][1], ordered[i][2])])

\* GET /transport/search
filter_transports_service(filters) ==
    /\ IF validate_times_and_prices(filters, now) # {}
       THEN response' = Reply("search", filters, 500, <<>>)
       ELSE \E ordered \in OrderBy(QueryRows(filters), filters) :
               response' = SearchOutcome(filters, ordered)
    /\ UNCHANGED <<now, transports, routes, transport_routes, schedules, seq>>

\* GET /transport/search/{transport_id}: the first row of the join of the
\* transport with its transport_routes, in the order the database returns
\* them; 404 when the join is empty.
get_transport_by_id_service(transport_id) ==
    LET req == [transport_id |-> transport_id]
        rows == {p \in transports \X transport_routes :
                    p[1].id = transport_id /\ p[2].transport_id = p[1].id}
    IN  /\ IF rows = {}
           THEN response' = Reply("get_by_id", req, 404, <<>>)
           ELSE \E row \in rows :
                   response' = Reply("get_by_id", req, 200,
                                     <<TransportFilterResponse(row[1], row[2])>>)
        /\ UNCHANGED <<now, transports, routes, transport_routes, schedules, seq>>

(***************************************************************************)
(* Ownership check shared by the mutating handlers.                        *)
(***************************************************************************)
\* select(Carrier.id).where(Carrier.user_id == current_user.id)
CarrierIdOf(current_user) ==
    IF \E c \in Carriers : c.user_id = current_user
    THEN (CHOOSE c \in Carriers : c.user_id = current_user).id
    ELSE NULL

\* get_transport_and_validate_user without the comparison of the carrier's
\* user with the current user.
get_transport_and_validate_user_any(transport_id, current_user) ==
    IF ~\E t \in transports : t.id = transport_id THEN 404 ELSE 200

\* 404 when the transport does not exist, 403 when its carrier belongs to
\* another user, 200 when the handler may go on.
get_transport_and_validate_user(transport_id, current_user) ==
    IF ~\E t \in transports : t.id = transport_id
    THEN 404
    ELSE LET transport == CHOOSE t \in transports : t.id = transport_id
         IN  IF \E c \in Carriers :
                    c.id = transport.carrier_id /\ c.user_id = current_user
             THEN 200
             ELSE 403

(***************************************************************************)
(* Vehicle registry.                                                       *)
(***************************************************************************)
\* POST /transport/create
create_transport_service(current_user, payload) ==
    LET req == [current_user |-> current_user, payload |-> payload]
        transport == [id |-> seq.transports + 1,
                      carrier_id |-> CarrierIdOf(current_user),
                      n_seat |-> payload.n_seat,
                      luggage |-> payload.luggage, wifi |-> payload.wifi,
                      tv |-> payload.tv,
                      air_conditioning |-> payload.air_conditioning,
                      toilet |-> payload.toilet,
                      rating |-> 0]
    IN  IF CarrierIdOf(current_user) = NULL
        THEN /\ response' = Reply("create_transport", req, 403, <<>>)
             /\ UNCHANGED <<now, transports, routes, transport_routes, schedules, seq>>
        ELSE /\ seq.transports < MaxTransports
             /\ transports' = transports \cup {transport}
             /\ seq' = [seq EXCEPT !.transports = @ + 1]
             /\ response' = Reply("create_transport", req, 201, <<transport>>)
             /\ UNCHANGED <<now, routes, transport_routes, schedules>>

\* PATCH /transport/{transport_id}: setattr for every field of the payload
\* that was set ({} is a field left unset).
update_transport_service(current_user, transport_id, payload) ==
    LET req == [current_user |-> current_user, transport_id |-> transport_id,
                payload |-> payload]
        access == get_transport_and_validate_user(transport_id, current_user)
        set(field, old) == IF field = {} THEN old ELSE CHOOSE v \in field : TRUE
        updated(t) == [t EXCEPT !.n_seat = set(payload.n_seat, @),
                                !.luggage = set(payload.luggage, @),
                                !.wifi = set(payload.wifi, @),
                                !.tv = set(payload.tv, @),
                                !.air_conditioning = set(payload.air_conditioning, @),
                                !.toilet = set(payload.toilet, @)]
    IN  IF access # 200
        THEN /\ response' = Reply("update_transport", req, access, <<>>)
             /\ UNCHANGED <<now, transports, routes, transport_routes, schedules, seq>>
        ELSE /\ transports' = {IF t.id = transport_id THEN updated(t) ELSE t :
                                  t \in transports}
             /\ response' = Reply("update_transport", req, 200,
                                   <<updated(CHOOSE t \in transports :
                                                 t.id = transport_id)>>)
             /\ UNCHANGED <<now, routes, transport_routes, schedules, seq>>

\* Transport.update_transport_rating: the rounded average of the comments'
\* ratings, which are written outside these handlers.
update_transport_rating(transport_id, avg_rating) ==
    /\ \E t \in transports : t.id = transport_id
    /\ transports' = {IF t.id = transport_id
                      THEN [t EXCEPT !.rating = avg_rating]
                      ELSE t : t \in transports}
    /\ response' = Reply("update_transport_rating",
                          [transport_id |-> transport_id, avg_rating |-> avg_rating],
                          200, <<>>)
    /\ UNCHANGED <<now, routes, transport_routes, schedules, seq>>

\* SchedulesOf that finds no schedule: the delete goes through and the rows
\* keep the id of the deleted transport.
SchedulesOf_none(transport_id) ==
    {}

\* The schedules that reference the transport.  Relationship
\* Transport.schedules carries no delete cascade, so on deleting the transport
\* the unit of work sets their id_transport to NULL; the column is
\* Mapped[int], that is NOT NULL, and the commit fails with an IntegrityError.
SchedulesOf(transport_id) ==
    {s \in schedules : s.id_transport = transport_id}

\* delete_transport_service on a nullable Schedule.id_transport: the delete
\* goes through and the schedules of the transport are detached.
delete_transport_service_nullify(current_user, transport_id) ==
    LET req == [current_user |-> current_user, transport_id |-> transport_id]
        access == get_transport_and_validate_user(transport_id, current_user)
    IN  IF access # 200
        THEN /\ response' = Reply("delete_transport", req, access, <<>>)
             /\ UNCHANGED <<now, transports, routes, transport_routes, schedules, seq>>
        ELSE /\ transports' = {t \in transports : t.id # transport_id}
             /\ transport_routes' =
                    {tr \in transport_routes : tr.transport_id # transport_id}
             /\ schedules' = {IF s.id_transport = transport_id
                              THEN [s EXCEPT !.id_transport = NULL]
                              ELSE s : s \in schedules}
             /\ response' = Reply("delete_transport", req, 204, <<>>)
             /\ UNCHANGED <<now, routes, seq>>

\* DELETE /transport/{transport_id}
delete_transport_service(current_user, transport_id) ==
    LET req == [current_user |-> current_user, transport_id |-> transport_id]
        access == get_transport_and_validate_user(transport_id, current_user)
    IN  IF access # 200
        THEN /\ response' = Reply("delete_transport", req, access, <<>>)
             /\ UNCHANGED <<now, transports, routes, transport_routes, schedules, seq>>
        ELSE IF SchedulesOf(transport_id) # {}
        THEN /\ response' = Reply("delete_transport", req, 500, <<>>)
             /\ UNCHANGED <<now, transports, routes, transport_routes, schedules, seq>>
        ELSE /\ transports' = {t \in transports : t.id # transport_id}
             \* cascade="all, delete-orphan" on Transport.transport_routes
             /\ transport_routes' =
                    {tr \in transport_routes : tr.transport_id # transport_id}
             /\ response' = Reply("delete_transport", req, 204, <<>>)
             /\ UNCHANGED <<now, routes, schedules, seq>>

(***************************************************************************)
(* Route catalog and price bands.                                          *)
(***************************************************************************)
\* FindRoute that takes a route between the two cities in either direction.
FindRoute_undirected(id_from, id_to) ==
    {r \in routes :
        \/ r.id_from = id_from /\ r.id_to = id_to
        \/ r.id_from = id_to /\ r.id_to = id_from}

\* select(Route).where(Route.id_from == id_from, Route.id_to == id_to)
FindRoute(id_from, id_to) ==
    {r \in routes : r.id_from = id_from /\ r.id_to = id_to}

\* ExistingTransportRoutes with the two ids compared to the wrong columns.
ExistingTransportRoutes_swapped(transport_id, route_id) ==
    {tr \in transport_routes :
        tr.transport_id = route_id /\ tr.route_id = transport_id}

\* select(TransportRoute).where(transport_id == transport.id, route_id == route.id)
ExistingTransportRoutes(transport_id, route_id) ==
    {tr \in transport_routes :
        tr.transport_id = transport_id /\ tr.route_id = route_id}

\* POST /transport/add_route/{transport_id}
add_route_to_transport_service(current_user, transport_id, id_from, id_to, min_price, max_price) ==
    LET req == [current_user |-> current_user, transport_id |-> transport_id,
                id_from |-> id_from, id_to |-> id_to,
                min_price |-> min_price, max_price |-> max_price]
        access == get_transport_and_validate_user(transport_id, current_user)
        found == FindRoute(id_from, id_to)
        \* the route found, or the one created (ids are serial; no route row
        \* is ever deleted by these handlers)
        route == IF found # {}
                 THEN CHOOSE r \in found : TRUE
                 ELSE [id |-> Cardinality(routes) + 1,
                       id_from |-> id_from, id_to |-> id_to]
        existing == ExistingTransportRoutes(transport_id, route.id)
        transport_route == [id |-> seq.transport_routes + 1,
                            transport_id |-> transport_id,
                            route_id |-> route.id,
                            min_price |-> min_price, max_price |-> max_price]
    IN  IF access # 200
        THEN /\ response' = Reply("add_route", req, access, <<>>)
             /\ UNCHANGED <<now, transports, routes, transport_routes, schedules, seq>>
        ELSE IF found = {} /\ ~(id_from \in Cities /\ id_to \in Cities)
        THEN \* ForeignKey("cities.id") fails the commit of the new route
             /\ response' = Reply("add_route", req, 500, <<>>)
             /\ UNCHANGED <<now, transports, routes, transport_routes, schedules, seq>>
        ELSE IF existing # {}
        THEN /\ response' = Reply("add_route", req, 400, <<>>)
             /\ UNCHANGED <<now, transports, routes, transport_routes, schedules, seq>>
        ELSE /\ seq.transport_routes < MaxTransportRoutes
             /\ routes' = routes \cup {route}
             /\ transport_routes' = transport_routes \cup {transport_route}
             /\ seq' = [seq EXCEPT !.transport_routes = @ + 1]
             /\ response' = Reply("add_route", req, 201, <<transport_route>>)
             /\ UNCHANGED <<now, transports, schedules>>

\* delete_transport_route_service that selects the assignments by the route
\* alone, whatever the transport.
delete_transport_route_service_by_route(current_user, transport_id, route_id) ==
    LET req == [current_user |-> current_user, transport_id |-> transport_id,
                route_id |-> route_id]
        access == get_transport_and_validate_user(transport_id, current_user)
        found == {tr \in transport_routes : tr.route_id = route_id}
    IN  IF access # 200
        THEN /\ response' = Reply("delete_route", req, access, <<>>)
             /\ UNCHANGED <<now, transports, routes, transport_routes, schedules, seq>>
        ELSE IF found = {}
        THEN /\ response' = Reply("delete_route", req, 404, <<>>)
             /\ UNCHANGED <<now, transports, routes, transport_routes, schedules, seq>>
        ELSE /\ transport_routes' = transport_routes \ found
             /\ response' = Reply("delete_route", req, 204, <<>>)
             /\ UNCHANGED <<now, transports, routes, schedules, seq>>

\* DELETE /transport/route/{transport_id}/{route_id}
delete_transport_route_service(current_user, transport_id, route_id) ==
    LET req == [current_user |-> current_user, transport_id |-> transport_id,
                route_id |-> route_id]
        access == get_transport_and_validate_user(transport_id, current_user)
        found == {tr \in transport_routes :
                     tr.transport_id = transport_id /\ tr.route_id = route_id}
    IN  IF access # 200
        THEN /\ response' = Reply("delete_route", req, access, <<>>)
             /\ UNCHANGED <<now, transports, routes, transport_routes, schedules, seq>>
        ELSE IF found = {}
        THEN /\ response' = Reply("delete_route", req, 404, <<>>)
             /\ UNCHANGED <<now, transports, routes, transport_routes, schedules, seq>>
        ELSE /\ transport_routes' = transport_routes \ found
             /\ response' = Reply("delete_route", req, 204, <<>>)
             /\ UNCHANGED <<now, transports, routes, schedules, seq>>

(***************************************************************************)
(* add_route_to_transport_service, statement by statement.  Each request   *)
(* runs in a session of its own; a statement reads the rows committed so   *)
(* far, and the route is committed before the assignment is looked up and  *)
(* inserted.  `calls` holds the position and the locals of the requests in *)
(* flight.                                                                 *)
(***************************************************************************)
Call(pc, req, route_id, created, status) ==
    [pc |-> pc, req |-> req, route_id |-> route_id, created |-> created,
     status |-> status]

\* The request has returned `status`.
Return(c, status) ==
    /\ calls' = [calls EXCEPT ![c] = [@ EXCEPT !.pc = "done", !.status = status]]
    /\ response' = Reply("add_route", calls[c].req, status, <<>>)

\* transport = await get_transport_and_validate_user(...)
AssignBegin(c, current_user, transport_id, id_from, id_to, min_price, max_price) ==
    LET req == [current_user |-> current_user, transport_id |-> transport_id,
                id_from |-> id_from, id_to |-> id_to,
                min_price |-> min_price, max_price |-> max_price]
        access == get_transport_and_validate_user(transport_id, current_user)
    IN  /\ calls[c].pc \in {"idle", "done"}
        /\ IF access # 200
           THEN /\ calls' = [calls EXCEPT ![c] = Call("done", req, NULL, FALSE, access)]
                /\ response' = Reply("add_route", req, access, <<>>)
           ELSE /\ calls' = [calls EXCEPT ![c] = Call("find_route", req, NULL, FALSE, 0)]
                /\ UNCHANGED response
        /\ UNCHANGED <<now, transports, routes, transport_routes, schedules, seq>>

\* select(Route).where(Route.id_from == id_from, Route.id_to == id_to)
AssignFindRoute(c) ==
    LET found == FindRoute(calls[c].req.id_from, calls[c].req.id_to)
    IN  /\ calls[c].pc = "find_route"
        /\ calls' = [calls EXCEPT ![c] =
                        IF found # {}
                        THEN [@ EXCEPT !.pc = "check_existing",
                                       !.route_id = (CHOOSE r \in found : TRUE).id]
                        ELSE [@ EXCEPT !.pc = "create_route"]]
        /\ UNCHANGED <<now, transports, routes, transport_routes, schedules, seq,
                       response>>

\* route = Route(...); db.add(route); await db.commit(): the commit fails on
\* ForeignKey("cities.id") and on uq_route_from_to, and no handler catches
\* the IntegrityError.
AssignCreateRoute(c) ==
    LET req == calls[c].req
        route == [id |-> Cardinality(routes) + 1,
                  id_from |-> req.id_from, id_to |-> req.id_to]
    IN  /\ calls[c].pc = "create_route"
        /\ IF ~(req.id_from \in Cities /\ req.id_to \in Cities)
              \/ FindRoute(req.id_from, req.id_to) # {}
           THEN /\ Return(c, 500)
                /\ UNCHANGED routes
           ELSE /\ routes' = routes \cup {route}
                /\ calls' = [calls EXCEPT ![c] =
                                [@ EXCEPT !.pc = "check_existing",
                                          !.route_id = route.id,
                                          !.created = TRUE]]
                /\ UNCHANGED response
        /\ UNCHANGED <<now, transports, transport_routes, schedules, seq>>

\* existing = existing_result.scalar_one_or_none(): raises MultipleResultsFound
\* on two rows; 400 on one.
AssignCheckExisting(c) ==
    LET existing == ExistingTransportRoutes(calls[c].req.transport_id,
                                            calls[c].route_id)
    IN  /\ calls[c].pc = "check_existing"
        /\ IF Cardinality(existing) > 1 THEN Return(c, 500)
           ELSE IF existing # {} THEN Return(c, 400)
           ELSE /\ calls' = [calls EXCEPT ![c] = [@ EXCEPT !.pc = "insert"]]
                /\ UNCHANGED response
        /\ UNCHANGED <<now, transports, routes, transport_routes, schedules, seq>>

\* db.add(transport_route); await db.commit(): the commit fails on
\* ForeignKey("transports.id") when the transport has been deleted meanwhile.
AssignInsert(c) ==
    LET req == calls[c].req
        transport_route == [id |-> seq.transport_routes + 1,
                            transport_id |-> req.transport_id,
                            route_id |-> calls[c].route_id,
                            min_price |-> req.min_price,
                            max_price |-> req.max_price]
    IN  /\ calls[c].pc = "insert"
        /\ IF ~\E t \in transports : t.id = req.transport_id
           THEN /\ Return(c, 500)
                /\ UNCHANGED <<transport_routes, seq>>
           ELSE /\ seq.transport_routes < MaxTransportRoutes
                /\ transport_routes' = transport_routes \cup {transport_route}
                /\ seq' = [seq EXCEPT !.transport_routes = @ + 1]
                /\ calls' = [calls EXCEPT ![c] =
                                [@ EXCEPT !.pc = "done", !.status = 201]]
                /\ response' = Reply("add_route", req, 201, <<transport_route>>)
        /\ UNCHANGED <<now, transports, routes, schedules>>

(***************************************************************************)
(* Commitment ledger: table schedules.                                     *)
(***************************************************************************)
\* validate_schedule that lets an empty interval (end = start) through.
validate_schedule_nonstrict(payload, at) ==
    ~(payload.start_time < at) /\ ~(payload.end_time < payload.start_time)

\* ScheduleCreate.validate_schedule
validate_schedule(payload, at) ==
    ~(payload.start_time < at) /\ ~(payload.end_time <= payload.start_time)

\* DuplicateSchedules as an overlap check: any interval of the vehicle that
\* overlaps the new one counts as a duplicate.
DuplicateSchedules_overlap(payload) ==
    {s \in schedules :
        /\ s.id_transport = payload.transport_id
        /\ s.start_time < payload.end_time
        /\ s.end_time > payload.start_time}

\* The duplicate check of add_transport_schedule_service: literal equality
\* of (transport, start, end).
DuplicateSchedules(payload) ==
    {s \in schedules :
        /\ s.id_transport = payload.transport_id
        /\ s.start_time = payload.start_time
        /\ s.end_time = payload.end_time}

\* POST /transport/schedule/
add_transport_schedule_service(current_user, payload) ==
    LET req == [current_user |-> current_user, payload |-> payload]
        access == get_transport_and_validate_user(payload.transport_id, current_user)
        schedule == [id |-> seq.schedules + 1,
                     start_time |-> payload.start_time,
                     end_time |-> payload.end_time,
                     reason |-> payload.reason,
                     id_transport |-> payload.transport_id]
    IN  IF ~validate_schedule(payload, now)
        THEN /\ response' = Reply("add_schedule", req, 422, <<>>)
             /\ UNCHANGED <<now, transports, routes, transport_routes, schedules, seq>>
        ELSE IF access # 200
        THEN /\ response' = Reply("add_schedule", req, access, <<>>)
             /\ UNCHANGED <<now, transports, routes, transport_routes, schedules, seq>>
        ELSE IF DuplicateSchedules(payload) # {}
        THEN /\ response' = Reply("add_schedule", req, 400, <<>>)
             /\ UNCHANGED <<now, transports, routes, transport_routes, schedules, seq>>
        ELSE /\ seq.schedules < MaxSchedules
             /\ schedules' = schedules \cup {schedule}
             /\ seq' = [seq EXCEPT !.schedules = @ + 1]
             /\ response' = Reply("add_schedule", req, 201, <<schedule>>)
             /\ UNCHANGED <<now, transports, routes, transport_routes>>

(***************************************************************************)
(* add_transport_schedule_service, statement by statement: the duplicate   *)
(* check and the insert are two statements of the request's session, and   *)
(* table schedules has no unique constraint.                               *)
(***************************************************************************)
\* The request has returned `status`.
ScheduleReturn(c, status) ==
    /\ calls' = [calls EXCEPT ![c] = [@ EXCEPT !.pc = "done", !.status = status]]
    /\ response' = Reply("add_schedule", calls[c].req, status, <<>>)

\* ScheduleCreate.validate_schedule, then
\* transport = await get_transport_and_validate_user(...)
ScheduleBegin(c, current_user, payload) ==
    LET req == [current_user |-> current_user, payload |-> payload]
        access == get_transport_and_validate_user(payload.transport_id, current_user)
        status == IF ~validate_schedule(payload, now) THEN 422 ELSE access
    IN  /\ calls[c].pc \in {"idle", "done"}
        /\ IF status # 200
           THEN /\ calls' = [calls EXCEPT ![c] = Call("done", req, NULL, FALSE, status)]
                /\ response' = Reply("add_schedule", req, status, <<>>)
           ELSE /\ calls' = [calls EXCEPT ![c] =
                                Call("check_duplicate", req, NULL, FALSE, 0)]
                /\ UNCHANGED response
        /\ UNCHANGED <<now, transports, routes, transport_routes, schedules, seq>>

\* result.scalar_one_or_none(): raises MultipleResultsFound on two rows; 400
\* on one.
ScheduleCheckDuplicate(c) ==
    LET duplicates == DuplicateSchedules(calls[c].req.payload)
    IN  /\ calls[c].pc = "check_duplicate"
        /\ IF Cardinality(duplicates) > 1 THEN ScheduleReturn(c, 500)
           ELSE IF duplicates # {} THEN ScheduleReturn(c, 400)
           ELSE /\ calls' = [calls EXCEPT ![c] = [@ EXCEPT !.pc = "insert_schedule"]]
                /\ UNCHANGED response
        /\ UNCHANGED <<now, transports, routes, transport_routes, schedules, seq>>

\* db.add(schedule); await db.commit(): the commit fails on
\* ForeignKey('transports.id') when the transport has been deleted meanwhile.
ScheduleInsert(c) ==
    LET payload == calls[c].req.payload
        schedule == [id |-> seq.schedules + 1,
                     start_time |-> payload.start_time,
                     end_time |-> payload.end_time,
                     reason |-> payload.reason,
                     id_transport |-> payload.transport_id]
    IN  /\ calls[c].pc = "insert_schedule"
        /\ IF ~\E t \in transports : t.id = payload.transport_id
           THEN /\ ScheduleReturn(c, 500)
                /\ UNCHANGED <<schedules, seq>>
           ELSE /\ seq.schedules < MaxSchedules
                /\ schedules' = schedules \cup {schedule}
                /\ seq' = [seq EXCEPT !.schedules = @ + 1]
                /\ calls' = [calls EXCEPT ![c] =
                                [@ EXCEPT !.pc = "done", !.status = 201]]
                /\ response' = Reply("add_schedule", calls[c].req, 201, <<schedule>>)
        /\ UNCHANGED <<now, transports, routes, transport_routes>>

\* delete_transport_schedules_service that removes every schedule of the
\* transport the named schedule belongs to.
delete_transport_schedules_service_all(current_user, schedule_id) ==
    LET req == [current_user |-> current_user, schedule_id |-> schedule_id]
        found == {s \in schedules : s.id = schedule_id}
        schedule == CHOOSE s \in found : TRUE
        access == get_transport_and_validate_user(schedule.id_transport, current_user)
    IN  IF found = {}
        THEN /\ response' = Reply("delete_schedule", req, 404, <<>>)
             /\ UNCHANGED <<now, transports, routes, transport_routes, schedules, seq>>
        ELSE IF access # 200
        THEN /\ response' = Reply("delete_schedule", req, access, <<>>)
             /\ UNCHANGED <<now, transports, routes, transport_routes, schedules, seq>>
        ELSE /\ schedules' = {s \in schedules : s.id_transport # schedule.id_transport}
             /\ response' = Reply("delete_schedule", req, 204, <<>>)
             /\ UNCHANGED <<now, transports, routes, transport_routes, seq>>

\* DELETE /transport/schedule/{schedule_id}
delete_transport_schedules_service(current_user, schedule_id) ==
    LET req == [current_user |-> current_user, schedule_id |-> schedule_id]
        found == {s \in schedules : s.id = schedule_id}
        schedule == CHOOSE s \in found : TRUE
        access == get_transport_and_validate_user(schedule.id_transport, current_user)
    IN  IF found = {}
        THEN /\ response' = Reply("delete_schedule", req, 404, <<>>)
             /\ UNCHANGED <<now, transports, routes, transport_routes, schedules, seq>>
        ELSE IF access # 200
        THEN /\ response' = Reply("delete_schedule", req, access, <<>>)
             /\ UNCHANGED <<now, transports, routes, transport_routes, schedules, seq>>
        ELSE /\ schedules' = schedules \ found
             /\ response' = Reply("delete_schedule", req, 204, <<>>)
             /\ UNCHANGED <<now, transports, routes, transport_routes, seq>>

\* The clock of the validators advances.
Tick ==
    /\ now < MaxNow
    /\ now' = now + 1
    /\ UNCHANGED <<transports, routes, transport_routes, schedules, seq, response,
                   calls>>

(***************************************************************************)
(* Initial state: empty tables.                                            *)
(***************************************************************************)
Init ==
    /\ now = 0
    /\ transports = {}
    /\ routes = {}
    /\ transport_routes = {}
    /\ schedules = {}
    /\ seq = [transports |-> 0, transport_routes |-> 0, schedules |-> 0]
    /\ response = NoResponse
    /\ calls = [c \in 1..MaxCalls |-> NoCall]

(***************************************************************************)
(* Requests.  An Optional[bool] of the filter is a set: {} is None,        *)
(* {TRUE} / {FALSE} a given value.                                         *)
(***************************************************************************)
\* The ids a request may name: every id handed out so far and the next one,
\* which no row has yet.
TransportIds == 1..(IF seq.transports < MaxTransports
                    THEN seq.transports + 1 ELSE MaxTransports)

ScheduleIds == 1..(IF seq.schedules < MaxSchedules
                   THEN seq.schedules + 1 ELSE MaxSchedules)

RouteIds == 1..(Cardinality(routes) + 1)

TransportCreate(n_seat, luggage, wifi, tv, air_conditioning, toilet) ==
    [n_seat |-> n_seat, luggage |-> luggage, wifi |-> wifi, tv |-> tv,
     air_conditioning |-> air_conditioning, toilet |-> toilet]

ScheduleCreate(transport_id, start_time, end_time, reason) ==
    [transport_id |-> transport_id, start_time |-> start_time,
     end_time |-> end_time, reason |-> reason]

\* A TransportUpdate that sets the number of seats and the Wi-Fi flag, or
\* leaves them unset.
TransportUpdate(n_seat, wifi) ==
    [n_seat |-> n_seat, luggage |-> {}, wifi |-> wifi, tv |-> {},
     air_conditioning |-> {}, toilet |-> {}]

\* A filter with every optional field left at its default.
TransportFilter(id_from, id_to, start_time, end_time, n_seat, min_price, max_price) ==
    [id_from |-> id_from, id_to |-> id_to,
     start_time |-> start_time, end_time |-> end_time,
     n_seat |-> n_seat, min_price |-> min_price, max_price |-> max_price,
     luggage |-> {}, wifi |-> {}, tv |-> {}, air_conditioning |-> {},
     toilet |-> {}, sort_by |-> "rating", sort_order |-> "desc"]

(***************************************************************************)
(* The handlers over the requests `in` of one specification: its users,    *)
(* create payloads, comment averages, (id_from, id_to, min_price,          *)
(* max_price) of add_route, (start, end, reason) of schedules, and         *)
(* filters.                                                                *)
(***************************************************************************)
CreateTransport(in) ==
    /\ \E u \in in.users, p \in in.payloads :
           create_transport_service(u, p)
    /\ UNCHANGED calls

UpdateTransport(in) ==
    /\ \E u \in in.users, t \in TransportIds, p \in in.updates :
           update_transport_service(u, t, p)
    /\ UNCHANGED calls

UpdateRating(in) ==
    /\ \E t \in TransportIds, a \in in.ratings :
           update_transport_rating(t, a)
    /\ UNCHANGED calls

DeleteTransport(in) ==
    /\ \E u \in in.users, t \in TransportIds :
           delete_transport_service(u, t)
    /\ UNCHANGED calls

AddRoute(in) ==
    /\ \E u \in in.users, t \in TransportIds, a \in in.assignments :
           add_route_to_transport_service(u, t, a[1], a[2], a[3], a[4])
    /\ UNCHANGED calls

DeleteRoute(in) ==
    /\ \E u \in in.users, t \in TransportIds, r \in RouteIds :
           delete_transport_route_service(u, t, r)
    /\ UNCHANGED calls

AddSchedule(in) ==
    /\ \E u \in in.users, t \in TransportIds, w \in in.slots :
           add_transport_schedule_service(u, ScheduleCreate(t, w[1], w[2], w[3]))
    /\ UNCHANGED calls

DeleteSchedule(in) ==
    /\ \E u \in in.users, i \in ScheduleIds :
           delete_transport_schedules_service(u, i)
    /\ UNCHANGED calls

Search(in) ==
    /\ \E f \in in.filters :
           filter_transports_service(f)
    /\ UNCHANGED calls

GetById(in) ==
    /\ \E t \in TransportIds :
           get_transport_by_id_service(t)
    /\ UNCHANGED calls

(***************************************************************************)
(* Spec: the ledger.  One kind of vehicle on one route; schedules of two   *)
(* reasons on overlapping and touching intervals; searches over windows    *)
(* that overlap, touch or miss them.                                       *)
(***************************************************************************)
LedgerWindows == {<<0, 1>>, <<1, 2>>, <<2, 3>>, <<3, 4>>, <<2, 2>>}

LedgerInputs ==
    [users       |-> {1},
     payloads    |-> {TransportCreate(2, FALSE, FALSE, FALSE, FALSE, FALSE)},
     assignments |-> {<<1, 2, 2, 3>>},
     slots       |-> {<<w[1], w[2], y>> :
                         w \in {<<1, 3>>, <<2, 4>>, <<3, 3>>},
                         y \in ScheduleReasonEnum},
     filters     |-> {TransportFilter(1, 2, w[1], w[2], 1, 1, 4) : w \in LedgerWindows}]

Next ==
    \/ CreateTransport(LedgerInputs)
    \/ DeleteTransport(LedgerInputs)
    \/ AddRoute(LedgerInputs)
    \/ DeleteRoute(LedgerInputs)
    \/ AddSchedule(LedgerInputs)
    \/ DeleteSchedule(LedgerInputs)
    \/ Search(LedgerInputs)
    \/ Tick

Spec == Init /\ [][Next]_vars

(***************************************************************************)
(* SpecAvail: availability.  Vehicles of one kind on one route; a          *)
(* technical interval [1, 2) and a reservation [3, 4) that are added and   *)
(* removed; searches over windows that touch, overlap or miss them.        *)
(***************************************************************************)
AvailWindows == {<<0, 1>>, <<1, 2>>, <<2, 3>>, <<2, 4>>}

AvailInputs ==
    [users       |-> {1},
     payloads    |-> {TransportCreate(2, FALSE, FALSE, FALSE, FALSE, FALSE)},
     assignments |-> {<<1, 2, 2, 3>>},
     slots       |-> {<<1, 2, "TECHNICAL">>, <<3, 4, "RESERVATION">>},
     filters     |-> {TransportFilter(1, 2, w[1], w[2], 1, 1, 4) : w \in AvailWindows}]

NextAvail ==
    \/ CreateTransport(AvailInputs)
    \/ AddRoute(AvailInputs)
    \/ AddSchedule(AvailInputs)
    \/ DeleteSchedule(AvailInputs)
    \/ Search(AvailInputs)

SpecAvail == Init /\ [][NextAvail]_vars

(***************************************************************************)
(* SpecRoutes: routes and price bands.  Vehicles of one kind, assigned to  *)
(* the two directions of a city pair with different bands; searches over   *)
(* both directions with bounds that contain, cut or miss the bands; one    *)
(* assignment names a city that does not exist.                            *)
(***************************************************************************)
RoutesPriceBounds == {<<1, 1>>, <<3, 5>>, <<1, 3>>, <<1, 5>>}

RoutesInputs ==
    [users       |-> {1},
     payloads    |-> {TransportCreate(2, FALSE, FALSE, FALSE, FALSE, FALSE)},
     assignments |-> {<<1, 2, 2, 4>>, <<1, 2, 2, 3>>, <<2, 1, 1, 5>>,
                      <<1, 3, 2, 4>>},
     filters     |-> {TransportFilter(c[1], c[2], 1, 2, 1, b[1], b[2]) :
                         c \in {<<1, 2>>, <<2, 1>>}, b \in RoutesPriceBounds}]

NextRoutes ==
    \/ CreateTransport(RoutesInputs)
    \/ AddRoute(RoutesInputs)
    \/ DeleteRoute(RoutesInputs)
    \/ Search(RoutesInputs)

SpecRoutes == Init /\ [][NextRoutes]_vars

(***************************************************************************)
(* SpecRank: ordering.  Vehicles of one kind on one route with different   *)
(* bands and ratings; searches with every sort key and direction.          *)
(***************************************************************************)
RankInputs ==
    [users       |-> {1},
     payloads    |-> {TransportCreate(2, FALSE, FALSE, FALSE, FALSE, FALSE)},
     ratings     |-> {0, 45},
     assignments |-> {<<1, 2, 2, 4>>, <<1, 2, 3, 4>>},
     filters     |-> {[TransportFilter(1, 2, 1, 2, 1, 1, 5)
                          EXCEPT !.sort_by = k[1], !.sort_order = k[2]] :
                         k \in {"rating", "price", "None"} \X {"asc", "desc", "None"}}]

NextRank ==
    \/ CreateTransport(RankInputs)
    \/ UpdateRating(RankInputs)
    \/ AddRoute(RankInputs)
    \/ Search(RankInputs)

SpecRank == Init /\ [][NextRank]_vars

(***************************************************************************)
(* SpecAttr: vehicle attributes.  Vehicles with one amenity each, with     *)
(* none, and with more seats; searches that ask for seats and for each     *)
(* amenity to be present or to be absent.                                  *)
(***************************************************************************)
AttrPayloads ==
    {TransportCreate(1, FALSE, FALSE, FALSE, FALSE, FALSE),
     TransportCreate(2, TRUE, FALSE, FALSE, FALSE, FALSE),
     TransportCreate(1, FALSE, TRUE, FALSE, FALSE, FALSE),
     TransportCreate(1, FALSE, FALSE, TRUE, FALSE, FALSE),
     TransportCreate(1, FALSE, FALSE, FALSE, TRUE, FALSE),
     TransportCreate(1, FALSE, FALSE, FALSE, FALSE, TRUE)}

AttrFilters ==
    LET base(n) == TransportFilter(1, 2, 1, 2, n, 1, 5)
    IN  {base(1), base(2)}
        \cup {[base(1) EXCEPT !.luggage = {v}] : v \in BOOLEAN}
        \cup {[base(1) EXCEPT !.wifi = {v}] : v \in BOOLEAN}
        \cup {[base(1) EXCEPT !.tv = {v}] : v \in BOOLEAN}
        \cup {[base(1) EXCEPT !.air_conditioning = {v}] : v \in BOOLEAN}
        \cup {[base(1) EXCEPT !.toilet = {v}] : v \in BOOLEAN}
        \cup {[base(2) EXCEPT !.luggage = {TRUE}, !.wifi = {FALSE}]}

AttrInputs ==
    [users       |-> {1},
     payloads    |-> AttrPayloads,
     assignments |-> {<<1, 2, 2, 3>>},
     filters     |-> AttrFilters]

NextAttr ==
    \/ CreateTransport(AttrInputs)
    \/ AddRoute(AttrInputs)
    \/ Search(AttrInputs)

SpecAttr == Init /\ [][NextAttr]_vars

(***************************************************************************)
(* SpecFilter: validation of the filter.  Searches whose window starts     *)
(* before, at or after the current instant, ends before, at or after its   *)
(* start, and whose price bound is ordered, degenerate or inverted, while  *)
(* the clock advances.                                                     *)
(***************************************************************************)
FilterWindows == {<<0, 1>>, <<0, 0>>, <<1, 2>>, <<1, 1>>, <<2, 3>>}

FilterPriceBounds == {<<1, 4>>, <<2, 2>>, <<3, 1>>}

FilterInputs ==
    [users       |-> {1},
     payloads    |-> {TransportCreate(2, FALSE, FALSE, FALSE, FALSE, FALSE)},
     assignments |-> {<<1, 2, 2, 2>>},
     filters     |-> {TransportFilter(1, 2, w[1], w[2], 1, b[1], b[2]) :
                         w \in FilterWindows, b \in FilterPriceBounds}]

NextFilter ==
    \/ CreateTransport(FilterInputs)
    \/ AddRoute(FilterInputs)
    \/ Search(FilterInputs)
    \/ Tick

SpecFilter == Init /\ [][NextFilter]_vars

(***************************************************************************)
(* SpecIntervals: writes to the commitment ledger.  Intervals that         *)
(* overlap, contain or repeat one another, with either reason, an empty    *)
(* interval and one that falls into the past as the clock advances; they   *)
(* are added and removed one call after another.                           *)
(***************************************************************************)
IntervalsInputs ==
    [users       |-> {1},
     payloads    |-> {TransportCreate(2, FALSE, FALSE, FALSE, FALSE, FALSE)},
     slots       |-> {<<1, 3, "TECHNICAL">>, <<1, 3, "RESERVATION">>,
                      <<2, 3, "TECHNICAL">>, <<0, 2, "RESERVATION">>,
                      <<3, 3, "TECHNICAL">>}]

NextIntervals ==
    \/ CreateTransport(IntervalsInputs)
    \/ AddSchedule(IntervalsInputs)
    \/ DeleteSchedule(IntervalsInputs)
    \/ Tick

SpecIntervals == Init /\ [][NextIntervals]_vars

(***************************************************************************)
(* SpecAssign: assignments under concurrency.  Requests to assign vehicles *)
(* to the route (1 -> 2) with two different bands run statement by         *)
(* statement and interleave with one another and with the creation and     *)
(* deletion of vehicles.                                                   *)
(***************************************************************************)
AssignInputs ==
    [users       |-> {1},
     payloads    |-> {TransportCreate(2, FALSE, FALSE, FALSE, FALSE, FALSE)},
     assignments |-> {<<1, 2, 2, 3>>, <<1, 2, 1, 5>>}]

BeginAssign(in) ==
    \E c \in 1..MaxCalls, u \in in.users, t \in TransportIds, a \in in.assignments :
        AssignBegin(c, u, t, a[1], a[2], a[3], a[4])

FindRouteStep == \E c \in 1..MaxCalls : AssignFindRoute(c)

CreateRouteStep == \E c \in 1..MaxCalls : AssignCreateRoute(c)

CheckExistingStep == \E c \in 1..MaxCalls : AssignCheckExisting(c)

InsertStep == \E c \in 1..MaxCalls : AssignInsert(c)

NextAssign ==
    \/ CreateTransport(AssignInputs)
    \/ DeleteTransport(AssignInputs)
    \/ BeginAssign(AssignInputs)
    \/ FindRouteStep
    \/ CreateRouteStep
    \/ CheckExistingStep
    \/ InsertStep

SpecAssign == Init /\ [][NextAssign]_vars

(***************************************************************************)
(* SpecFresh: searches between writes to the ledger.  Vehicles of one kind *)
(* on one route; two intervals that both overlap the window [2, 3) and     *)
(* both miss the window [4, 5) are added and removed between searches.     *)
(***************************************************************************)
FreshWindows == {<<2, 3>>, <<4, 5>>}

FreshInputs ==
    [users       |-> {1},
     payloads    |-> {TransportCreate(2, FALSE, FALSE, FALSE, FALSE, FALSE)},
     assignments |-> {<<1, 2, 2, 3>>},
     slots       |-> {<<1, 3, "TECHNICAL">>, <<2, 4, "RESERVATION">>},
     filters     |-> {TransportFilter(1, 2, w[1], w[2], 1, 1, 4) : w \in FreshWindows}]

NextFresh ==
    \/ CreateTransport(FreshInputs)
    \/ AddRoute(FreshInputs)
    \/ AddSchedule(FreshInputs)
    \/ DeleteSchedule(FreshInputs)
    \/ Search(FreshInputs)

SpecFresh == Init /\ [][NextFresh]_vars

(***************************************************************************)
(* SpecLife: lifetime of the intervals.  Vehicles are created, updated and *)
(* deleted while intervals are written for them and removed.               *)
(***************************************************************************)
LifeInputs ==
    [users       |-> {1},
     payloads    |-> {TransportCreate(2, FALSE, FALSE, FALSE, FALSE, FALSE)},
     updates     |-> {TransportUpdate({3}, {TRUE})},
     slots       |-> {<<1, 3, "TECHNICAL">>, <<2, 4, "RESERVATION">>}]

NextLife ==
    \/ CreateTransport(LifeInputs)
    \/ UpdateTransport(LifeInputs)
    \/ DeleteTransport(LifeInputs)
    \/ AddSchedule(LifeInputs)
    \/ DeleteSchedule(LifeInputs)

SpecLife == Init /\ [][NextLife]_vars

(***************************************************************************)
(* SpecDelete: deletion of vehicles.  Vehicles of one kind on one route    *)
(* are created and deleted while an interval [1, 3) is written for them    *)
(* and removed; searches run over the window [2, 3), which the interval    *)
(* overlaps.                                                               *)
(***************************************************************************)
DeleteInputs ==
    [users       |-> {1},
     payloads    |-> {TransportCreate(2, FALSE, FALSE, FALSE, FALSE, FALSE)},
     assignments |-> {<<1, 2, 2, 3>>},
     slots       |-> {<<1, 3, "TECHNICAL">>},
     filters     |-> {TransportFilter(1, 2, 2, 3, 1, 1, 4)}]

NextDelete ==
    \/ CreateTransport(DeleteInputs)
    \/ DeleteTransport(DeleteInputs)
    \/ AddRoute(DeleteInputs)
    \/ AddSchedule(DeleteInputs)
    \/ DeleteSchedule(DeleteInputs)
    \/ Search(DeleteInputs)

SpecDelete == Init /\ [][NextDelete]_vars

(***************************************************************************)
(* SpecAccess: ownership.  Operator account 1 creates vehicles; accounts 1 *)
(* and 2 assign and unassign them, add intervals to them and remove the    *)
(* intervals; one interval is empty.                                       *)
(***************************************************************************)
AccessInputs ==
    [users       |-> {1, 2},
     payloads    |-> {TransportCreate(2, FALSE, FALSE, FALSE, FALSE, FALSE)},
     assignments |-> {<<1, 2, 2, 3>>},
     slots       |-> {<<1, 3, "TECHNICAL">>, <<3, 3, "TECHNICAL">>}]

\* The account that owns the vehicles.
AccessOwners ==
    [AccessInputs EXCEPT !.users = {1}]

NextAccess ==
    \/ CreateTransport(AccessOwners)
    \/ AddRoute(AccessInputs)
    \/ DeleteRoute(AccessInputs)
    \/ AddSchedule(AccessInputs)
    \/ DeleteSchedule(AccessInputs)

SpecAccess == Init /\ [][NextAccess]_vars

(***************************************************************************)
(* SpecLookup: lookup of one vehicle.  Vehicles with no assignment, with   *)
(* one, and with assignments on both directions of a city pair with        *)
(* different bands are looked up by id, with and without an interval in    *)
(* the ledger.                                                             *)
(***************************************************************************)
LookupInputs ==
    [users       |-> {1},
     payloads    |-> {TransportCreate(2, FALSE, FALSE, FALSE, FALSE, FALSE)},
     assignments |-> {<<1, 2, 2, 3>>, <<2, 1, 1, 5>>},
     slots       |-> {<<1, 3, "TECHNICAL">>}]

NextLookup ==
    \/ CreateTransport(LookupInputs)
    \/ AddRoute(LookupInputs)
    \/ AddSchedule(LookupInputs)
    \/ GetById(LookupInputs)

SpecLookup == Init /\ [][NextLookup]_vars

(***************************************************************************)
(* SpecAddInterval: intervals under concurrency.  Requests to add the      *)
(* interval [1, 3) to a vehicle, with either reason, run statement by      *)
(* statement and interleave with one another and with the creation of      *)
(* vehicles.                                                               *)
(***************************************************************************)
AddIntervalInputs ==
    [users       |-> {1},
     payloads    |-> {TransportCreate(2, FALSE, FALSE, FALSE, FALSE, FALSE)},
     slots       |-> {<<1, 3, "TECHNICAL">>, <<1, 3, "RESERVATION">>}]

BeginAddSchedule(in) ==
    \E c \in 1..MaxCalls, u \in in.users, t \in TransportIds, w \in in.slots :
        ScheduleBegin(c, u, ScheduleCreate(t, w[1], w[2], w[3]))

CheckDuplicateStep == \E c \in 1..MaxCalls : ScheduleCheckDuplicate(c)

InsertScheduleStep == \E c \in 1..MaxCalls : ScheduleInsert(c)

NextAddInterval ==
    \/ CreateTransport(AddIntervalInputs)
    \/ BeginAddSchedule(AddIntervalInputs)
    \/ CheckDuplicateStep
    \/ InsertScheduleStep

SpecAddInterval == Init /\ [][NextAddInterval]_vars

(***************************************************************************)
(* SpecAssignSearch: searches over assignments made under concurrency.     *)
(* Requests to assign vehicles to the route (1 -> 2) run statement by      *)
(* statement and interleave with one another and with searches on that     *)
(* route.                                                                  *)
(***************************************************************************)
AssignSearchInputs ==
    [users       |-> {1},
     payloads    |-> {TransportCreate(2, FALSE, FALSE, FALSE, FALSE, FALSE)},
     assignments |-> {<<1, 2, 2, 3>>},
     filters     |-> {TransportFilter(1, 2, 1, 2, 1, 1, 4)}]

NextAssignSearch ==
    \/ CreateTransport(AssignSearchInputs)
    \/ BeginAssign(AssignSearchInputs)
    \/ FindRouteStep
    \/ CreateRouteStep
    \/ CheckExistingStep
    \/ InsertStep
    \/ Search(AssignSearchInputs)

SpecAssignSearch == Init /\ [][NextAssignSearch]_vars

(***************************************************************************)
(* Vocabulary of the properties.                                           *)
(***************************************************************************)
\* The last request was a search that passed validation and was answered
\* by the service; no table has changed since.
SearchAnswered ==
    response.op = "search" /\ response.status \in {200, 404}

\* The (vehicle, assignment) pairs on the requested route.
OnRoute(filters) ==
    {p \in transports \X transport_routes :
        /\ p[2].transport_id = p[1].id
        /\ \E r \in routes :
              /\ r.id = p[2].route_id
              /\ r.id_from = filters.id_from
              /\ r.id_to = filters.id_to}

\* The candidate set: the pairs passing the route and attribute filters.
Candidates(filters) ==
    {p \in OnRoute(filters) :
        /\ SeatMatches(p[1], filters)
        /\ PriceMatches(p[2], filters)
        /\ AmenityMatches(p[1], filters)}

\* The vehicle's own intervals [s, e) with s < end and e > start.
OwnOverlaps(t, filters) ==
    {s \in schedules :
        /\ s.id_transport = t.id
        /\ s.start_time < filters.end_time
        /\ s.end_time > filters.start_time}

\* The pair is one of the results of the response.
Offered(p) ==
    \E i \in 1..Len(response.body) :
        /\ response.body[i].id = p[1].id
        /\ response.body[i].min_price = p[2].min_price
        /\ response.body[i].max_price = p[2].max_price

(***************************************************************************)
(* C1.  For every ledger state and every valid search, a vehicle that      *)
(* passes the route and attribute filters is returned if and only if none  *)
(* of its own commitment intervals [s, e) has s < filter.end and           *)
(* e > filter.start, whatever the intervals' reasons; an interval that     *)
(* only touches the window never excludes the vehicle.                     *)
(***************************************************************************)
C1_ReturnedIffNoOwnOverlap ==
    SearchAnswered =>
        \A p \in Candidates(response.req) :
            Offered(p) <=> OwnOverlaps(p[1], response.req) = {}

\* A search returned a vehicle holding an interval that touches the window
\* and left out another candidate whose interval overlaps it.
C1_Witness ==
    /\ SearchAnswered
    /\ \E p \in Candidates(response.req) :
          /\ Offered(p)
          /\ \E s \in schedules :
                /\ s.id_transport = p[1].id
                /\ \/ s.end_time = response.req.start_time
                   \/ s.start_time = response.req.end_time
    /\ \E q \in Candidates(response.req) :
          ~Offered(q) /\ OwnOverlaps(q[1], response.req) # {}

(***************************************************************************)
(* C2.  No double-booking: no vehicle is committed to two reservation      *)
(* intervals (reason other than TECHNICAL) that overlap; the step that     *)
(* writes a commitment interval re-validates overlaps for the vehicle and  *)
(* rejects the write when a conflicting interval exists.                   *)
(***************************************************************************)
C2_NoDoubleBooking ==
    \A s1, s2 \in schedules :
        (/\ s1.id # s2.id
         /\ s1.id_transport # NULL
         /\ s1.id_transport = s2.id_transport
         /\ s1.reason # "TECHNICAL"
         /\ s2.reason # "TECHNICAL")
            => ~(s1.start_time < s2.end_time /\ s2.start_time < s1.end_time)

(***************************************************************************)
(* C4.  Directionality: every vehicle in the result of a search for        *)
(* (A -> B) has an assignment on route (A -> B); a vehicle assigned only   *)
(* to other routes, (B -> A) included, never appears.                      *)
(***************************************************************************)
C4_Directionality ==
    SearchAnswered =>
        \A i \in 1..Len(response.body) :
            \E tr \in transport_routes, r \in routes :
                /\ tr.transport_id = response.body[i].id
                /\ tr.route_id = r.id
                /\ r.id_from = response.req.id_from
                /\ r.id_to = response.req.id_to

\* A search for (A -> B) with A # B was answered with results while a vehicle
\* assigned only to (B -> A), inside the requested price bound, exists.
C4_Witness ==
    /\ SearchAnswered
    /\ response.status = 200
    /\ response.req.id_from # response.req.id_to
    /\ \E t \in transports :
          /\ \E tr \in transport_routes, r \in routes :
                /\ tr.transport_id = t.id
                /\ tr.route_id = r.id
                /\ r.id_from = response.req.id_to
                /\ r.id_to = response.req.id_from
                /\ tr.min_price >= response.req.min_price
                /\ tr.max_price <= response.req.max_price
          /\ \A tr \in transport_routes, r \in routes :
                (tr.transport_id = t.id /\ tr.route_id = r.id)
                    => ~(r.id_from = response.req.id_from
                         /\ r.id_to = response.req.id_to)

(***************************************************************************)
(* C5.  Price containment: a pair on the requested route that passes the   *)
(* other conditions is returned if and only if                             *)
(* assignment.min_price >= filter.min_price and                            *)
(* assignment.max_price <= filter.max_price.                               *)
(***************************************************************************)
C5_PriceContainment ==
    SearchAnswered =>
        \A p \in OnRoute(response.req) :
            (/\ SeatMatches(p[1], response.req)
             /\ AmenityMatches(p[1], response.req)
             /\ OwnOverlaps(p[1], response.req) = {})
                => (Offered(p) <=>
                        /\ p[2].min_price >= response.req.min_price
                        /\ p[2].max_price <= response.req.max_price)

\* A search returned a pair whose band fits the bound and left out a pair on
\* the same route whose band overlaps the bound without fitting in it.
C5_Witness ==
    /\ SearchAnswered
    /\ \E p \in OnRoute(response.req) : Offered(p)
    /\ \E q \in OnRoute(response.req) :
          /\ ~Offered(q)
          /\ q[2].min_price <= response.req.max_price
          /\ q[2].max_price >= response.req.min_price

(***************************************************************************)
(* C6.  Every result carries the minimum and maximum price of the          *)
(* vehicle's assignment on the requested route, never another route's.     *)
(***************************************************************************)
C6_MatchedBand ==
    SearchAnswered =>
        \A i \in 1..Len(response.body) :
            \E p \in OnRoute(response.req) :
                /\ p[1].id = response.body[i].id
                /\ p[2].min_price = response.body[i].min_price
                /\ p[2].max_price = response.body[i].max_price

\* A result for a vehicle that also holds an assignment with another band.
C6_Witness ==
    /\ SearchAnswered
    /\ \E i \in 1..Len(response.body) :
          \E tr \in transport_routes :
              /\ tr.transport_id = response.body[i].id
              /\ <<tr.min_price, tr.max_price>>
                    # <<response.body[i].min_price, response.body[i].max_price>>

(***************************************************************************)
(* C7.  Ordering of the result.                                            *)
(***************************************************************************)
\* The sort value of a result: the matched minimum price for sort_by
\* "price", the rating otherwise.
SortValue(row) ==
    IF response.req.sort_by = "price" THEN row.min_price ELSE row.rating

\* Result i may come before result j under the requested direction
\* (descending for "desc", ascending otherwise).
InDirection(i, j) ==
    IF response.req.sort_order = "desc"
    THEN SortValue(response.body[i]) >= SortValue(response.body[j])
    ELSE SortValue(response.body[i]) <= SortValue(response.body[j])

SearchRepeated ==
    /\ response.op = "search"
    /\ response'.op = "search"
    /\ response'.req = response.req
    /\ UNCHANGED <<now, transports, routes, transport_routes, schedules>>

C9_AttributeFilter ==
    SearchAnswered =>
        \A p \in OnRoute(response.req) :
            (/\ PriceMatches(p[2], response.req)
             /\ OwnOverlaps(p[1], response.req) = {})
                => (Offered(p) <=>
                        /\ p[1].n_seat >= response.req.n_seat
                        /\ \A v \in response.req.luggage : p[1].luggage = v
                        /\ \A v \in response.req.wifi : p[1].wifi = v
                        /\ \A v \in response.req.tv : p[1].tv = v
                        /\ \A v \in response.req.air_conditioning :
                              p[1].air_conditioning = v
                        /\ \A v \in response.req.toilet : p[1].toilet = v)

\* A search asking for an amenity to be absent returned a vehicle without it
\* and left out a vehicle with enough seats that has it.
C9_Witness ==
    /\ SearchAnswered
    /\ \E p \in OnRoute(response.req) : Offered(p)
    /\ \E q \in OnRoute(response.req) :
          /\ ~Offered(q)
          /\ q[1].n_seat >= response.req.n_seat
          /\ \/ response.req.luggage = {FALSE} /\ q[1].luggage
             \/ response.req.wifi = {FALSE} /\ q[1].wifi
             \/ response.req.tv = {FALSE} /\ q[1].tv
             \/ response.req.air_conditioning = {FALSE} /\ q[1].air_conditioning
             \/ response.req.toilet = {FALSE} /\ q[1].toilet

(***************************************************************************)
(* C10.  Outcome of a valid search that no vehicle survives.               *)
(***************************************************************************)
\* The pairs that pass the filters and the overlap exclusion.
Survivors(filters) ==
    {p \in Candidates(filters) : OwnOverlaps(p[1], filters) = {}}

\* C10 as claimed: the search succeeds with an empty list.
C10_EmptyIsSuccess ==
    (SearchAnswered /\ Survivors(response.req) = {})
        => (response.status = 200 /\ response.body = <<>>)

\* C10 as amended: the search ends with the error 404 "No transports found
\* matching the filters" and returns no list.
C10_EmptyIsNotFound ==
    (response.op = "search" /\ response.status # 500
        /\ Survivors(response.req) = {})
        => (response.status = 404 /\ response.body = <<>>)

\* A valid search on a route that vehicles serve, none of which survives.
C10_Witness ==
    /\ response.op = "search"
    /\ response.status = 404
    /\ OnRoute(response.req) # {}
    /\ Survivors(response.req) = {}

(***************************************************************************)
(* C11.  A search whose filter violates several invariants at once (start  *)
(* not in the future, end not after start, maximum price below minimum     *)
(* price) is answered with a client error that names every violated field, *)
(* for every non-empty subset of the three violations.                     *)
(***************************************************************************)
\* The step answers a search with the filter f.
SearchStep(f) ==
    /\ response' # response
    /\ response'.op = "search"
    /\ response'.req = f

C11_EveryViolatedFieldNamed ==
    [][\A f \in FilterInputs.filters :
          (SearchStep(f) /\ validate_times_and_prices(f, now) # {})
              => /\ response'.status \in 400..499
                 /\ {response'.body[i] : i \in 1..Len(response'.body)}
                        = validate_times_and_prices(f, now)]_vars

(***************************************************************************)
(* C12.  A search is rejected exactly when the window start is not         *)
(* strictly later than the current instant, or the window end is not after *)
(* the start, or the maximum price is below the minimum price: a start     *)
(* equal to the current instant is rejected, and a maximum price equal to  *)
(* the minimum is accepted.                                                *)
(***************************************************************************)
C12_RejectedExactlyWhenInvalid ==
    [][\A f \in FilterInputs.filters :
          SearchStep(f)
              => (response'.status \notin {200, 404}
                    <=> \/ f.start_time <= now
                        \/ f.end_time <= f.start_time
                        \/ f.max_price < f.min_price)]_vars

(***************************************************************************)
(* C13.  With calls executed one after another, adding an interval to a    *)
(* vehicle fails with a conflict whenever an interval with the identical   *)
(* (vehicle, start, end) exists, whatever the reason given, and succeeds   *)
(* for any other valid (start, end) on that vehicle, also when the new     *)
(* interval overlaps or lies within an existing one.                       *)
(***************************************************************************)
\* The step answers a request to add the interval p for user u.
AddScheduleStep(u, p) ==
    /\ response' # response
    /\ response'.op = "add_schedule"
    /\ response'.req = [current_user |-> u, payload |-> p]

\* The payloads of the requests of SpecIntervals.
IntervalsPayloads ==
    {ScheduleCreate(t, w[1], w[2], w[3]) :
        t \in 1..MaxTransports, w \in IntervalsInputs.slots}

\* The request is valid and comes from the operator of an existing vehicle.
MayWrite(u, p) ==
    /\ p.start_time >= now
    /\ p.end_time > p.start_time
    /\ \E t \in transports, c \in Carriers :
          t.id = p.transport_id /\ c.id = t.carrier_id /\ c.user_id = u

C13_DuplicateOnlyWhenIdentical ==
    [][\A u \in IntervalsInputs.users, p \in IntervalsPayloads :
          (AddScheduleStep(u, p) /\ MayWrite(u, p))
              => IF \E s \in schedules :
                        /\ s.id_transport = p.transport_id
                        /\ s.start_time = p.start_time
                        /\ s.end_time = p.end_time
                 THEN response'.status = 400 /\ schedules' = schedules
                 ELSE /\ response'.status = 201
                      /\ \E s \in schedules' \ schedules :
                            /\ schedules' = schedules \cup {s}
                            /\ s.id_transport = p.transport_id
                            /\ s.start_time = p.start_time
                            /\ s.end_time = p.end_time
                            /\ s.reason = p.reason]_vars

\* A request repeating an interval with another reason was refused, while
\* the ledger holds an interval lying within another one of the same vehicle.
C13_Witness ==
    /\ response.op = "add_schedule"
    /\ response.status = 400
    /\ \E s \in schedules :
          /\ s.id_transport = response.req.payload.transport_id
          /\ s.start_time = response.req.payload.start_time
          /\ s.end_time = response.req.payload.end_time
          /\ s.reason # response.req.payload.reason
    /\ \E s1, s2 \in schedules :
          /\ s1.id # s2.id
          /\ s1.id_transport = s2.id_transport
          /\ s1.start_time < s2.end_time
          /\ s2.start_time < s1.end_time

(***************************************************************************)
(* C14.  Every interval of the ledger has end > start and a start not      *)
(* earlier than the instant of its creation: a request to add an interval  *)
(* with end <= start or with a start in the past fails as an invalid       *)
(* request and inserts nothing.                                            *)
(***************************************************************************)
C14_ValidWindowsOnly ==
    [][/\ \A s \in schedules' : s.end_time > s.start_time
       /\ \A s \in schedules' \ schedules : s.start_time >= now
       /\ \A u \in IntervalsInputs.users, p \in IntervalsPayloads :
             (AddScheduleStep(u, p)
                 /\ (p.end_time <= p.start_time \/ p.start_time < now))
                 => response'.status = 422 /\ schedules' = schedules]_vars

\* A request with a start in the past was refused while the ledger holds an
\* interval created earlier.
C14_Witness ==
    /\ response.op = "add_schedule"
    /\ response.status = 422
    /\ response.req.payload.start_time < now
    /\ response.req.payload.end_time > response.req.payload.start_time
    /\ schedules # {}

(***************************************************************************)
(* C15.  With calls executed one after another, assigning a vehicle to an  *)
(* (origin, destination) it is already assigned to fails with a conflict   *)
(* and leaves the existing assignment and its price band unchanged, also   *)
(* when the call carries a different band; there is at most one            *)
(* assignment per (vehicle, route).                                        *)
(***************************************************************************)
\* The step answers a request of user u to assign vehicle t with a =
\* (id_from, id_to, min_price, max_price).
AddRouteStep(u, t, a) ==
    /\ response' # response
    /\ response'.op = "add_route"
    /\ response'.req = [current_user |-> u, transport_id |-> t,
                        id_from |-> a[1], id_to |-> a[2],
                        min_price |-> a[3], max_price |-> a[4]]

\* Vehicle t exists and belongs to the carrier of user u.
Owns(u, t) ==
    \E x \in transports, c \in Carriers :
        x.id = t /\ c.id = x.carrier_id /\ c.user_id = u

\* The assignments of vehicle t on the route (id_from -> id_to).
AssignmentsOn(t, id_from, id_to) ==
    {tr \in transport_routes :
        /\ tr.transport_id = t
        /\ \E r \in routes :
              r.id = tr.route_id /\ r.id_from = id_from /\ r.id_to = id_to}

C15_DuplicateAssignIsConflict ==
    [][/\ \A tr1, tr2 \in transport_routes' :
             (tr1.transport_id = tr2.transport_id /\ tr1.route_id = tr2.route_id)
                 => tr1 = tr2
       /\ \A u \in RoutesInputs.users, t \in 1..MaxTransports,
             a \in RoutesInputs.assignments :
             (AddRouteStep(u, t, a) /\ Owns(u, t)
                 /\ AssignmentsOn(t, a[1], a[2]) # {})
                 => /\ response'.status = 400
                    /\ transport_routes' = transport_routes
                    /\ routes' = routes]_vars

\* A request carrying another band for an assigned (vehicle, route) was
\* refused.
C15_Witness ==
    /\ response.op = "add_route"
    /\ response.status = 400
    /\ \E tr \in AssignmentsOn(response.req.transport_id,
                               response.req.id_from, response.req.id_to) :
          <<tr.min_price, tr.max_price>>
              # <<response.req.min_price, response.req.max_price>>

(***************************************************************************)
(* C16.  Under every interleaving of two concurrent requests to assign the *)
(* same (vehicle, route), at most one assignment row for the pair exists.  *)
(***************************************************************************)
C16_OneRowPerPairUnderConcurrency ==
    \A tr1, tr2 \in transport_routes :
        (tr1.transport_id = tr2.transport_id /\ tr1.route_id = tr2.route_id)
            => tr1 = tr2

(***************************************************************************)
(* C17.  Under every interleaving of two concurrent requests that both     *)
(* create the same absent (origin, destination) route, one route row for   *)
(* the pair exists afterwards and the losing create is answered with a     *)
(* conflict, not with a second row or an unclassified failure.             *)
(***************************************************************************)
C17_LosingCreateIsConflict ==
    [][/\ \A r1, r2 \in routes' :
             (r1.id_from = r2.id_from /\ r1.id_to = r2.id_to) => r1 = r2
       /\ \A c \in 1..MaxCalls :
             (/\ calls[c].pc = "create_route"
              /\ calls'[c].pc = "done"
              /\ calls[c].req.id_from \in Cities
              /\ calls[c].req.id_to \in Cities)
                 => calls'[c].status = 400]_vars

(***************************************************************************)
(* C18.  Route get-or-create is idempotent: resolving an (origin,          *)
(* destination) pair any number of times, through assignments of any       *)
(* vehicles, yields the same route id and never a second row, (A -> B) and *)
(* (B -> A) are two routes, and no two routes share an ordered pair.       *)
(***************************************************************************)
C18_RouteGetOrCreateIdempotent ==
    [][/\ \A r1, r2 \in routes' :
             \/ r1 = r2
             \/ /\ r1.id # r2.id
                /\ <<r1.id_from, r1.id_to>> # <<r2.id_from, r2.id_to>>
       /\ routes \subseteq routes'
       /\ \A u \in RoutesInputs.users, t \in 1..MaxTransports,
             a \in RoutesInputs.assignments :
             (AddRouteStep(u, t, a) /\ response'.status = 201)
                 => /\ \E r \in routes' :
                          /\ r.id = response'.body[1].route_id
                          /\ r.id_from = a[1]
                          /\ r.id_to = a[2]
                    /\ (\E r \in routes : r.id_from = a[1] /\ r.id_to = a[2])
                          => routes' = routes]_vars

\* An assignment was made on a route that another assignment had resolved
\* before, and the pair still has one route row.
C18_Witness ==
    /\ response.op = "add_route"
    /\ response.status = 201
    /\ \E tr \in transport_routes :
          /\ tr.id # response.body[1].id
          /\ tr.route_id = response.body[1].route_id
    /\ Cardinality({r \in routes : /\ r.id_from = response.req.id_from
                                   /\ r.id_to = response.req.id_to}) = 1

(***************************************************************************)
(* C19.  An assignment whose origin or destination city does not exist     *)
(* fails as an invalid reference, a client error, and persists neither a   *)
(* route nor an assignment.                                                *)
(***************************************************************************)
C19_UnknownCityIsInvalidReference ==
    [][\A u \in RoutesInputs.users, t \in 1..MaxTransports,
          a \in RoutesInputs.assignments :
          (AddRouteStep(u, t, a) /\ Owns(u, t)
              /\ ~(a[1] \in Cities /\ a[2] \in Cities))
              => /\ response'.status \in 400..499
                 /\ routes' = routes
                 /\ transport_routes' = transport_routes]_vars

(***************************************************************************)
(* C20.  A mutation that returns an error has written nothing, under every *)
(* interleaving with other requests: an assignment request that ends in an *)
(* error leaves behind no route it created.                                *)
(***************************************************************************)
C20_ErrorLeavesNoWrite ==
    \A c \in 1..MaxCalls :
        (calls[c].pc = "done" /\ calls[c].status >= 400) => ~calls[c].created


(***************************************************************************)
(* C21.  Search holds no availability state between requests: whatever was *)
(* answered before, a search offers a candidate vehicle exactly when the   *)
(* ledger of that moment holds no interval of the vehicle overlapping the  *)
(* window, so it excludes the vehicle once an overlapping interval has     *)
(* been added and offers it again once its only overlapping interval has   *)
(* been removed.                                                           *)
(***************************************************************************)
C21_SearchReadsTheLedger ==
    [][\A f \in FreshInputs.filters :
          (SearchStep(f) /\ response'.status \in {200, 404})
              => \A p \in Candidates(f) :
                    (\E i \in 1..Len(response'.body) : response'.body[i].id = p[1].id)
                        <=> OwnOverlaps(p[1], f) = {}]_vars

\* The only vehicle there has ever been is offered for a window that every
\* interval written so far overlapped; at least one interval was written,
\* and all have been removed.
C21_Witness ==
    /\ response.op = "search"
    /\ response.status = 200
    /\ seq.transports = 1
    /\ seq.schedules >= 1
    /\ \A w \in FreshInputs.slots :
          w[1] < response.req.end_time /\ w[2] > response.req.start_time
    /\ \E i \in 1..Len(response.body) : response.body[i].id = 1
    /\ schedules = {}

(***************************************************************************)
(* C22.  After a vehicle is deleted, none of its route assignments and     *)
(* none of its commitment intervals remains in storage: every assignment   *)
(* and every interval refers to a vehicle that exists, and no interval is  *)
(* left with the deleted vehicle's id or with an empty vehicle reference.  *)
(***************************************************************************)
C22_NothingLeftOfDeletedVehicle ==
    [][/\ \A t \in transports :
             (\A x \in transports' : x.id # t.id)
                 => /\ \A tr \in transport_routes' : tr.transport_id # t.id
                    /\ \A s \in schedules' : s.id_transport # t.id
       /\ \A tr \in transport_routes' :
             \E x \in transports' : x.id = tr.transport_id
       /\ \A s \in schedules' :
             /\ s.id_transport # NULL
             /\ \E x \in transports' : x.id = s.id_transport]_vars

\* The only vehicle there has ever been was deleted after an assignment and
\* an interval had been written for it.
C22_Witness ==
    /\ response.op = "delete_transport"
    /\ response.status = 204
    /\ seq.transports = 1
    /\ seq.transport_routes >= 1
    /\ seq.schedules >= 1
    /\ transports = {}

(***************************************************************************)
(* C23.  Requests to assign, unassign, add an interval and remove an       *)
(* interval that come from an account that does not own the target         *)
(* vehicle.                                                                *)
(***************************************************************************)
\* The vehicle a response is about: the transport of the request, or the
\* transport of the interval the request names; NULL when there is none.
TargetVehicle(resp) ==
    CASE resp.op \in {"add_route", "delete_route"} -> resp.req.transport_id
      [] resp.op = "add_schedule" -> resp.req.payload.transport_id
      [] resp.op = "delete_schedule" ->
            IF \E s \in schedules : s.id = resp.req.schedule_id
            THEN (CHOOSE s \in schedules : s.id = resp.req.schedule_id).id_transport
            ELSE NULL
      [] OTHER -> NULL

\* The step answers one of the four requests, made on an existing vehicle by
\* an account that does not own it.
ForeignRequestStep ==
    /\ response' # response
    /\ response'.op \in {"add_route", "delete_route", "add_schedule", "delete_schedule"}
    /\ \E t \in transports : t.id = TargetVehicle(response')
    /\ ~Owns(response'.req.current_user, TargetVehicle(response'))

\* C23 as claimed: the request fails with 403 Access denied and changes
\* nothing.
C23_NonOwnerIsDenied ==
    [][ForeignRequestStep
          => /\ response'.status = 403
             /\ UNCHANGED <<transports, routes, transport_routes, schedules>>]_vars

\* C23 as amended: the request changes nothing and fails with 403, or with
\* 422 when it is a request to add an interval whose window is invalid; and
\* every assignment and interval that a step writes or removes belongs to a
\* vehicle of the account that made the request.
C23_NonOwnerChangesNothing ==
    [][/\ ForeignRequestStep
             => /\ UNCHANGED <<transports, routes, transport_routes, schedules>>
                /\ IF /\ response'.op = "add_schedule"
                      /\ ~validate_schedule(response'.req.payload, now)
                   THEN response'.status = 422
                   ELSE response'.status = 403
       /\ \A tr \in (transport_routes' \ transport_routes)
                        \cup (transport_routes \ transport_routes') :
             Owns(response'.req.current_user, tr.transport_id)
       /\ \A s \in (schedules' \ schedules) \cup (schedules \ schedules') :
             Owns(response'.req.current_user, s.id_transport)]_vars

\* An account was refused the removal of an interval of another account's
\* vehicle, which also holds an assignment; the interval is still there.
C23_Witness ==
    /\ response.op = "delete_schedule"
    /\ response.status = 403
    /\ \E s \in schedules :
          /\ s.id = response.req.schedule_id
          /\ ~Owns(response.req.current_user, s.id_transport)
          /\ \E tr \in transport_routes : tr.transport_id = s.id_transport

(***************************************************************************)
(* C24.  A request to remove an interval whose id is not in the ledger     *)
(* fails with 404 and leaves the ledger unchanged; a request by the owner  *)
(* for an id in the ledger removes exactly that interval and leaves every  *)
(* other interval, of the same and of other vehicles, in place; the id is  *)
(* then absent, so that a second request for it fails with 404.            *)
(***************************************************************************)
\* The step answers a request of user u to remove the interval i.
DeleteScheduleStep(u, i) ==
    /\ response' # response
    /\ response'.op = "delete_schedule"
    /\ response'.req = [current_user |-> u, schedule_id |-> i]

C24_RemoveExactlyTheInterval ==
    [][\A u \in IntervalsInputs.users, i \in 1..(MaxSchedules + 1) :
          DeleteScheduleStep(u, i)
              => IF \A s \in schedules : s.id # i
                 THEN response'.status = 404 /\ schedules' = schedules
                 ELSE \A s \in schedules :
                         (s.id = i /\ Owns(u, s.id_transport))
                             => /\ response'.status = 204
                                /\ schedules' = schedules \ {s}
                                /\ \A x \in schedules' : x.id # i]_vars

\* A second request to remove an interval was answered 404 while an interval
\* written for the same vehicle and not named by the request is in place.
C24_Witness ==
    /\ response.op = "delete_schedule"
    /\ response.status = 404
    /\ response.req.schedule_id <= seq.schedules
    /\ seq.transports = 1
    /\ schedules # {}

(***************************************************************************)
(* C25.  A request to unassign a vehicle from a route fails with 404 and   *)
(* changes nothing when the vehicle has no assignment on that route; when  *)
(* it succeeds it removes exactly that assignment, leaving the vehicle's   *)
(* other assignments, other vehicles' assignments on the route and the     *)
(* route itself in place, and no search on that route returns the vehicle  *)
(* any more.                                                               *)
(***************************************************************************)
\* The step answers a request of user u to unassign vehicle t from route r.
DeleteRouteStep(u, t, r) ==
    /\ response' # response
    /\ response'.op = "delete_route"
    /\ response'.req = [current_user |-> u, transport_id |-> t, route_id |-> r]

C25_UnassignExactlyTheAssignment ==
    [][\A u \in RoutesInputs.users, t \in 1..MaxTransports,
          r \in 1..(Cardinality(routes) + 1) :
          (DeleteRouteStep(u, t, r) /\ Owns(u, t))
              => LET own == {tr \in transport_routes :
                                tr.transport_id = t /\ tr.route_id = r}
                 IN  IF own = {}
                     THEN /\ response'.status = 404
                          /\ UNCHANGED <<transports, routes, transport_routes, schedules>>
                     ELSE /\ response'.status = 204
                          /\ Cardinality(own) = 1
                          /\ transport_routes' = transport_routes \ own
                          /\ UNCHANGED <<transports, routes, schedules>>
                          /\ \A f \in RoutesInputs.filters :
                                (\E x \in routes : x.id = r /\ RouteMatches(x, f))
                                    => \A p \in QueryRows(f)' : p[1].id # t]_vars

\* A vehicle was unassigned from a route on which another vehicle is still
\* assigned.
C25_Witness ==
    /\ response.op = "delete_route"
    /\ response.status = 204
    /\ \E r \in routes : r.id = response.req.route_id
    /\ \E tr \in transport_routes :
          /\ tr.route_id = response.req.route_id
          /\ tr.transport_id # response.req.transport_id
    /\ \A tr \in transport_routes :
          ~(tr.route_id = response.req.route_id
            /\ tr.transport_id = response.req.transport_id)

(***************************************************************************)
(* C26.  A lookup by vehicle id is answered 404 exactly when no vehicle    *)
(* with that id exists; for an existing vehicle it returns the vehicle     *)
(* with the price band of one of the vehicle's own assignments, whatever   *)
(* the ledger holds.                                                       *)
(***************************************************************************)
C26_NotFoundExactlyWhenAbsent ==
    response.op = "get_by_id" =>
        /\ response.status \in {200, 404}
        /\ response.status = 404
              <=> \A t \in transports : t.id # response.req.transport_id
        /\ response.status = 200
              => /\ response.body[1].id = response.req.transport_id
                 /\ \E tr \in transport_routes :
                       /\ tr.transport_id = response.req.transport_id
                       /\ tr.min_price = response.body[1].min_price
                       /\ tr.max_price = response.body[1].max_price

(***************************************************************************)
(* C27.  An interval is Active from the request that adds it to the one    *)
(* that removes it, and nothing else: no step, the update and the deletion *)
(* of a vehicle included, changes the vehicle reference, start, end or     *)
(* reason of an interval that stays in the ledger, and the id of a removed *)
(* interval never names an interval again.                                 *)
(***************************************************************************)
C27_ActiveThenRemoved ==
    [][/\ \A s \in schedules :
             (\E x \in schedules' : x.id = s.id) => s \in schedules'
       /\ \A x \in schedules' \ schedules : x.id > seq.schedules
       /\ \A s \in schedules : s.id <= seq.schedules]_vars

\* A vehicle that holds an interval was updated, after another interval had
\* been removed from the ledger.
C27_Witness ==
    /\ response.op = "update_transport"
    /\ response.status = 200
    /\ \E s \in schedules : s.id_transport = response.req.transport_id
    /\ Cardinality(schedules) < seq.schedules

(***************************************************************************)
(* C28.  Under every interleaving of concurrent requests to add an         *)
(* interval, the ledger never holds two intervals with the identical       *)
(* (vehicle, start, end): of two concurrent requests with the same triple  *)
(* at most one inserts.                                                    *)
(***************************************************************************)
C28_NoIdenticalIntervalsUnderConcurrency ==
    \A s1, s2 \in schedules :
        (/\ s1.id_transport = s2.id_transport
         /\ s1.start_time = s2.start_time
         /\ s1.end_time = s2.end_time)
            => s1 = s2

(***************************************************************************)
(* C29.  In every reachable state, the states reached through concurrent   *)
(* requests to assign included, the result of a search contains each       *)
(* vehicle id at most once.                                                *)
(***************************************************************************)
C29_EachVehicleOnce ==
    SearchAnswered =>
        \A i, j \in 1..Len(response.body) :
            i # j => response.body[i].id # response.body[j].id

(***************************************************************************)
(* C30.  Availability is per vehicle: a step that leaves a vehicle W, its  *)
(* assignments and its own intervals as they are -- the addition or the    *)
(* removal of an interval of another vehicle V, the deletion of V -- never *)
(* changes whether W is in the result of a search.                         *)
(***************************************************************************)
\* The rows of the query for filter f that are about vehicle w.
RowsOf(f, w) ==
    {p \in QueryRows(f) : p[1].id = w}

C30_AvailabilityPerVehicle ==
    [][\A f \in DeleteInputs.filters, w \in transports :
          (/\ w \in transports'
           /\ {tr \in transport_routes' : tr.transport_id = w.id}
                 = {tr \in transport_routes : tr.transport_id = w.id}
           /\ {s \in schedules' : s.id_transport = w.id}
                 = {s \in schedules : s.id_transport = w.id})
              => RowsOf(f, w.id)' = RowsOf(f, w.id)]_vars

\* A search offers a vehicle while another vehicle on the route, which holds
\* an interval overlapping the window, is left out.
C30_Witness ==
    /\ SearchAnswered
    /\ \E p, q \in Candidates(response.req) :
          /\ p[1].id # q[1].id
          /\ Offered(p)
          /\ OwnOverlaps(q[1], response.req) # {}
          /\ \A i \in 1..Len(response.body) : response.body[i].id # q[1].id

====
